---- MODULE Spec2Model ----
(***************************************************************************)
(* generate_growth_projection of growth_projection_tool.py as a state      *)
(* machine: one action per loop iteration or statement group, the local    *)
(* variables of the function as the state.                                 *)
(*                                                                         *)
(* Python floats are IEEE-754 binary64.  A float is modelled exactly, as a *)
(* pair <<b, e>> denoting BitsNat(b) * 2^e, where b is the little-endian   *)
(* binary expansion of an odd natural number (<< <<>>, 0 >> is 0.0), and   *)
(* every float operation rounds its exact result to 53 significant bits,   *)
(* ties to even.  All values of the model are non-negative and far from    *)
(* the exponent limits, so signs, subnormals and infinities are left out.  *)
(*                                                                         *)
(* Inputs: growth_rate is a whole number of percent (exact as a float);    *)
(* a price is given in tenths of a dollar, n standing for the float that   *)
(* the decimal numeral n/10 denotes (PriceFloat).                          *)
(***************************************************************************)
EXTENDS Integers, Sequences, FiniteSets

VARIABLES
    initial_users, growth_rate, months, tier_limits, tier_prices,
    final_tier_price, use_tiers,        \* the arguments
    users,                              \* line 7
    pricing_data,                       \* line 11
    i,                                  \* index of the enumerate loop, line 12
    k,                                  \* position of the zip loop, line 17
    tier_costs, remaining_users, total_cost,    \* lines 13-15
    charged,                            \* history: the units each tier_cost of this month multiplies
    column_headers,                     \* line 40
    df,                                 \* line 47
    pc

args == <<initial_users, growth_rate, months, tier_limits, tier_prices,
          final_tier_price, use_tiers>>
locals == <<users, pricing_data, i, k, tier_costs, remaining_users, total_cost,
            charged, column_headers, df>>
vars == <<args, locals, pc>>

-----------------------------------------------------------------------------
(* Bounds of the model and the argument values it draws from.              *)

MaxMonths == 3
MaxTiers == 2

UserValues == {1, 25, 10000}
RateValues == {0, 5, 16}
LimitValues == {5000, 20000}
PriceValues == {5, 10}
FinalPriceValues == {8, 10}

-----------------------------------------------------------------------------
(* binary64 arithmetic                                                     *)

MantissaBits == 53

\* Long significands are added and multiplied limb by limb; the limb size
\* only has to keep every intermediate product a machine integer.
LimbBits == 12
LimbBase == 2 ^ LimbBits

Min(a, b) == IF a < b THEN a ELSE b

BitAt(n, j) == (n \div (2 ^ (j - 1))) % 2

BitLen(n) == IF n = 0 THEN 0 ELSE CHOOSE L \in 1..31 : n \div (2 ^ (L - 1)) = 1

\* The little-endian binary expansion of a natural number, and back.
NatBits(n) == [j \in 1..BitLen(n) |-> BitAt(n, j)]

RECURSIVE BitsNat(_)
BitsNat(b) == IF b = <<>> THEN 0 ELSE b[1] + 2 * BitsNat(Tail(b))

\* b without its high-order zero bits.
StripHigh(b) ==
    LET n == Len(b)
    IN  IF \A j \in 1..n : b[j] = 0 THEN <<>>
        ELSE LET d == CHOOSE d \in 0..(n - 1) :
                          b[n - d] = 1 /\ \A m \in 0..(d - 1) : b[n - m] = 0
             IN  SubSeq(b, 1, n - d)

\* The canonical form: no low-order zero bit in the significand.
Normal(b, e) ==
    LET n == Len(b)
    IN  IF \A j \in 1..n : b[j] = 0 THEN <<<<>>, 0>>
        ELSE LET z == CHOOSE z \in 0..(n - 1) :
                          b[z + 1] = 1 /\ \A m \in 1..z : b[m] = 0
             IN  <<SubSeq(b, z + 1, n), e + z>>

Zeros(n) == [j \in 1..n |-> 0]

ToLimbs(b) ==
    [j \in 1..((Len(b) + LimbBits - 1) \div LimbBits) |->
        BitsNat(SubSeq(b, LimbBits * (j - 1) + 1, Min(LimbBits * j, Len(b))))]

FromLimbs(l) ==
    StripHigh([j \in 1..(LimbBits * Len(l)) |->
                  BitAt(l[((j - 1) \div LimbBits) + 1], ((j - 1) % LimbBits) + 1)])

RECURSIVE AddLimbs(_, _, _)
AddLimbs(a, b, c) ==
    IF a = <<>> /\ b = <<>> THEN (IF c = 0 THEN <<>> ELSE <<c>>)
    ELSE LET x == IF a = <<>> THEN 0 ELSE a[1]
             y == IF b = <<>> THEN 0 ELSE b[1]
             s == x + y + c
         IN  <<s % LimbBase>> \o AddLimbs(IF a = <<>> THEN a ELSE Tail(a),
                                          IF b = <<>> THEN b ELSE Tail(b),
                                          s \div LimbBase)

RECURSIVE MulLimbs(_, _, _)
MulLimbs(n, l, c) ==
    IF l = <<>> THEN (IF c = 0 THEN <<>>
                      ELSE <<c % LimbBase>> \o MulLimbs(n, l, c \div LimbBase))
    ELSE LET s == n * l[1] + c
         IN  <<s % LimbBase>> \o MulLimbs(n, Tail(l), s \div LimbBase)

AddBits(a, b) == FromLimbs(AddLimbs(ToLimbs(a), ToLimbs(b), 0))

MulBits(n, b) == FromLimbs(MulLimbs(n, ToLimbs(b), 0))

\* Round the exact value (b * 2^e, plus a nonzero tail below b when sticky)
\* to MantissaBits significant bits, to nearest, ties to even.
Round(b, e, sticky) ==
    LET n == Len(b)
        drop == n - MantissaBits
    IN  IF drop <= 0 THEN Normal(b, e)
        ELSE LET kept == SubSeq(b, drop + 1, n)
                 guard == b[drop]
                 rest == sticky \/ \E j \in 1..(drop - 1) : b[j] = 1
                 up == guard = 1 /\ (rest \/ kept[1] = 1)
             IN  Normal(IF up THEN AddBits(kept, <<1>>) ELSE kept, e + drop)

FloatZero == <<<<>>, 0>>

\* int -> float, exact below 2^53.
FromInt(n) == Normal(NatBits(n), 0)

\* x + y
FloatAdd(x, y) ==
    LET e == Min(x[2], y[2])
    IN  Round(AddBits(Zeros(x[2] - e) \o x[1], Zeros(y[2] - e) \o y[1]), e, FALSE)

\* n * x for an int n >= 0 and a float x
FloatMulInt(n, x) == Round(MulBits(n, x[1]), x[2], FALSE)

\* Long division, a limb of the quotient at a time, until the quotient has
\* more than MantissaBits + 1 significant bits or the division is exact.
RECURSIVE DivLoop(_, _, _, _)
DivLoop(q, rem, b, e) ==
    IF rem = 0 \/ LimbBits * (Len(q) - 1) > MantissaBits
    THEN Round(FromLimbs(q), e, rem # 0)
    ELSE LET d == (LimbBase * rem) \div b
         IN  DivLoop(IF q = <<>> /\ d = 0 THEN q ELSE <<d>> \o q,
                     (LimbBase * rem) % b, b, e - LimbBits)

\* a / b for ints a >= 0, b > 0: the float nearest to the quotient.
FloatDiv(a, b) == DivLoop(ToLimbs(NatBits(a \div b)), a % b, b, 0)

\* int(x): truncation toward zero.
FloatToInt(x) ==
    IF x[2] >= 0 THEN BitsNat(x[1]) * (2 ^ x[2])
    ELSE IF -x[2] >= Len(x[1]) THEN 0
    ELSE BitsNat(SubSeq(x[1], 1 - x[2], Len(x[1])))

\* The float a price argument of n tenths stands for.
PriceFloat(n) == FloatDiv(n, 10)

-----------------------------------------------------------------------------
(* The function's expressions                                              *)

SeqsUpTo(S, n) == UNION {[1..m -> S] : m \in 0..n}

\* A growth step that multiplies by the rate alone, without the 1 +.
NextUsersRateOnly(last, rate) ==
    FloatToInt(FloatMulInt(last, FloatDiv(rate, 100)))

\* line 9: int(users[-1] * (1 + growth_rate / 100))
NextUsers(last, rate) ==
    FloatToInt(FloatMulInt(last, FloatAdd(FromInt(1), FloatDiv(rate, 100))))

\* line 17: zip stops at the shorter list
ZipLen(limits, prices) == Min(Len(limits), Len(prices))

\* A tier that always charges its whole capacity.
TierUnitsWholeLimit(remaining, limit) == limit

\* lines 18-19, 21-22: the units the tier's price multiplies
TierUnits(remaining, limit) == IF remaining > limit THEN limit ELSE remaining

\* A tier whose else branch leaves remaining_users as it was.
TierRemainingNotCleared(remaining, limit) ==
    IF remaining > limit THEN remaining - limit ELSE remaining

\* A tier that takes its capacity off whatever remains.
TierRemainingUnchecked(remaining, limit) == remaining - limit

\* lines 18, 20, 23: remaining_users after the tier
TierRemaining(remaining, limit) ==
    IF remaining > limit THEN remaining - limit ELSE 0

\* lines 19, 22: tier_cost
TierCost(units, price) == FloatMulInt(units, PriceFloat(price))

\* An assignment in place of the +=.
AddCostOverwrite(total, cost) == cost

\* lines 25, 29: total_cost += cost
AddCost(total, cost) == FloatAdd(total, cost)

\* A final tier that appends nothing when no users remain.
FinalTierCostsNoZero(remaining, price) ==
    IF remaining > 0 THEN <<FloatMulInt(remaining, PriceFloat(price))>>
    ELSE <<>>

\* lines 27-32: what the final tier appends to tier_costs
FinalTierCosts(remaining, price) ==
    IF remaining > 0 THEN <<FloatMulInt(remaining, PriceFloat(price))>>
    ELSE <<FloatZero>>

\* lines 27-29: total_cost after the final tier
FinalTierTotal(total, remaining, price) ==
    IF remaining > 0 THEN AddCost(total, FloatMulInt(remaining, PriceFloat(price)))
    ELSE total

\* A flat cost cut to whole dollars.
FlatCostWhole(user_count, price) ==
    FromInt(FloatToInt(FloatMulInt(user_count, PriceFloat(price))))

\* line 34: final_tier_cost of the flat branch
FlatCost(user_count, price) == FloatMulInt(user_count, PriceFloat(price))

\* A row that counts its months from 1.
RowFromOne(month, user_count, costs, total) ==
    <<month + 1, user_count>> \o costs \o <<total>>

\* line 38
Row(month, user_count, costs, total) == <<month, user_count>> \o costs \o <<total>>

\* lines 40-45: a label is <<text, n>>, n the number an f-string puts in it
ColumnHeaders(tiered, limits) ==
    <<<<"Month", 0>>, <<"Projected Users", 0>>>>
    \o (IF tiered
        THEN [n \in 1..Len(limits) |-> <<"Tier N Pricing ($)", n>>]
             \o <<<<"Final Tier Pricing ($)", 0>>>>
        ELSE <<<<"Final Tier Pricing ($)", 0>>>>)
    \o <<<<"Total Estimated Pricing ($)", 0>>>>

\* line 47: pandas refuses rows whose length is not the number of columns
DataFrame(data, columns) ==
    IF \A r \in 1..Len(data) : Len(data[r]) = Len(columns)
    THEN [status |-> "ok", columns |-> columns, rows |-> data]
    ELSE [status |-> "ValueError", columns |-> <<>>, rows |-> <<>>]

NoFrame == [status |-> "none", columns |-> <<>>, rows |-> <<>>]

-----------------------------------------------------------------------------
(* Initial states: the function entered, line 7 executed                   *)

InitWith(U, R, M, L, P, F) ==
    /\ initial_users \in U
    /\ growth_rate \in R
    /\ months \in M
    /\ tier_limits \in L
    /\ tier_prices \in P
    /\ final_tier_price \in F
    /\ use_tiers \in BOOLEAN
    /\ users = <<initial_users>>
    /\ pricing_data = <<>>
    /\ i = 0
    /\ k = 0
    /\ tier_costs = <<>>
    /\ remaining_users = 0
    /\ total_cost = FloatZero
    /\ charged = <<>>
    /\ column_headers = <<>>
    /\ df = NoFrame
    /\ pc = "grow"

\* The configurations of the data model: positive users, horizon and
\* capacities, non-negative rate and prices, one price per tier.
Init ==
    /\ InitWith(UserValues, RateValues, 1..MaxMonths,
                SeqsUpTo(LimitValues, MaxTiers), SeqsUpTo(PriceValues, MaxTiers),
                FinalPriceValues)
    /\ Len(tier_limits) = Len(tier_prices)

\* Any call, the ones the data model excludes included: zero users, a zero
\* horizon, a zero capacity, lists of different lengths.
InitAny ==
    InitWith({0, 1, 25}, {0, 16}, 0..1,
             SeqsUpTo({0, 20}, MaxTiers), SeqsUpTo({10}, MaxTiers), {8})

-----------------------------------------------------------------------------
(* Actions                                                                 *)

\* lines 8-9, one iteration
GrowStep ==
    /\ pc = "grow"
    /\ Len(users) - 1 < months
    /\ users' = Append(users, NextUsers(users[Len(users)], growth_rate))
    /\ UNCHANGED <<args, pricing_data, i, k, tier_costs, remaining_users,
                   total_cost, charged, column_headers, df, pc>>

\* line 8 exhausted, line 11
GrowDone ==
    /\ pc = "grow"
    /\ Len(users) - 1 >= months
    /\ pricing_data' = <<>>
    /\ i' = 0
    /\ pc' = "month"
    /\ UNCHANGED <<args, users, k, tier_costs, remaining_users, total_cost,
                   charged, column_headers, df>>

\* lines 12-16, the next month's iteration begins
BeginMonth ==
    /\ pc = "month"
    /\ i < Len(users)
    /\ tier_costs' = <<>>
    /\ remaining_users' = users[i + 1]
    /\ total_cost' = FloatZero
    /\ charged' = <<>>
    /\ k' = 0
    /\ pc' = IF use_tiers THEN "tier" ELSE "flat"
    /\ UNCHANGED <<args, users, pricing_data, i, column_headers, df>>

\* lines 17-25, one bounded tier
TierStep ==
    /\ pc = "tier"
    /\ k < ZipLen(tier_limits, tier_prices)
    /\ LET limit == tier_limits[k + 1]
           price == tier_prices[k + 1]
           units == TierUnits(remaining_users, limit)
           tier_cost == TierCost(units, price)
       IN  /\ remaining_users' = TierRemaining(remaining_users, limit)
           /\ tier_costs' = Append(tier_costs, tier_cost)
           /\ total_cost' = AddCost(total_cost, tier_cost)
           /\ charged' = Append(charged, units)
    /\ k' = k + 1
    /\ UNCHANGED <<args, users, pricing_data, i, column_headers, df, pc>>

\* lines 27-32, the final tier
FinalTier ==
    /\ pc = "tier"
    /\ k >= ZipLen(tier_limits, tier_prices)
    /\ tier_costs' = tier_costs \o FinalTierCosts(remaining_users, final_tier_price)
    /\ total_cost' = FinalTierTotal(total_cost, remaining_users, final_tier_price)
    /\ charged' = Append(charged, IF remaining_users > 0 THEN remaining_users ELSE 0)
    /\ pc' = "row"
    /\ UNCHANGED <<args, users, pricing_data, i, k, remaining_users,
                   column_headers, df>>

\* lines 33-36, flat pricing
FlatPrice ==
    /\ pc = "flat"
    /\ LET final_tier_cost == FlatCost(users[i + 1], final_tier_price)
       IN  /\ total_cost' = final_tier_cost
           /\ tier_costs' = Append(tier_costs, final_tier_cost)
    /\ charged' = Append(charged, users[i + 1])
    /\ pc' = "row"
    /\ UNCHANGED <<args, users, pricing_data, i, k, remaining_users,
                   column_headers, df>>

\* line 38
AppendRow ==
    /\ pc = "row"
    /\ pricing_data' = Append(pricing_data, Row(i, users[i + 1], tier_costs, total_cost))
    /\ i' = i + 1
    /\ pc' = "month"
    /\ UNCHANGED <<args, users, k, tier_costs, remaining_users, total_cost,
                   charged, column_headers, df>>

\* line 12 exhausted, lines 40-45
BuildHeaders ==
    /\ pc = "month"
    /\ i >= Len(users)
    /\ column_headers' = ColumnHeaders(use_tiers, tier_limits)
    /\ pc' = "frame"
    /\ UNCHANGED <<args, users, pricing_data, i, k, tier_costs, remaining_users,
                   total_cost, charged, df>>

\* lines 47-48
BuildDataFrame ==
    /\ pc = "frame"
    /\ df' = DataFrame(pricing_data, column_headers)
    /\ pc' = "done"
    /\ UNCHANGED <<args, users, pricing_data, i, k, tier_costs, remaining_users,
                   total_cost, charged, column_headers>>

Next ==
    \/ GrowStep
    \/ GrowDone
    \/ BeginMonth
    \/ TierStep
    \/ FinalTier
    \/ FlatPrice
    \/ AppendRow
    \/ BuildHeaders
    \/ BuildDataFrame

Spec == Init /\ [][Next]_vars

SpecAny == InitAny /\ [][Next]_vars

-----------------------------------------------------------------------------
(* The records of the result, and what the properties below say of them    *)

\* The rows of the returned table; there is none before the return.
Records == IF pc = "done" THEN df.rows ELSE <<>>

RowMonth(row) == row[1]
RowUsers(row) == row[2]
RowTierCosts(row) == SubSeq(row, 3, Len(row) - 1)
RowTotal(row) == row[Len(row)]

RECURSIVE SumSeq(_)
SumSeq(s) == IF s = <<>> THEN 0 ELSE s[1] + SumSeq(Tail(s))

\* sum(tier_costs): the float sum, taken from the left
RECURSIVE FloatSum(_)
FloatSum(s) ==
    IF s = <<>> THEN FloatZero
    ELSE FloatAdd(FloatSum(SubSeq(s, 1, Len(s) - 1)), s[Len(s)])

\* The tier costs of the pricing rule: every bounded tier in order takes
\* min(remaining, capacity) units, the final tier what is left.
RECURSIVE GraduatedCosts(_, _, _, _)
GraduatedCosts(remaining, limits, prices, final) ==
    IF limits = <<>> THEN <<FloatMulInt(remaining, PriceFloat(final))>>
    ELSE LET units == Min(remaining, limits[1])
         IN  <<FloatMulInt(units, PriceFloat(prices[1]))>>
             \o GraduatedCosts(remaining - units, Tail(limits), Tail(prices), final)

ValidConfiguration ==
    /\ initial_users > 0
    /\ months > 0
    /\ growth_rate >= 0
    /\ \A t \in 1..Len(tier_limits) : tier_limits[t] > 0
    /\ \A t \in 1..Len(tier_prices) : tier_prices[t] >= 0
    /\ final_tier_price >= 0

Labels(n) ==
    <<<<"Month", 0>>, <<"Projected Users", 0>>>>
    \o [t \in 1..n |-> <<"Tier N Pricing ($)", t>>]
    \o <<<<"Final Tier Pricing ($)", 0>>, <<"Total Estimated Pricing ($)", 0>>>>

-----------------------------------------------------------------------------
(* C1: a configuration with initialUsers <= 0, horizonMonths <= 0, a tier  *)
(* capacity <= 0 or a negative price or rate is refused before anything is *)
(* computed and yields no result; every other configuration yields a       *)
(* complete result.  (Checked under SpecAny, whose calls include the       *)
(* refused ones.)                                                          *)
C1_InvalidConfigurationRaised ==
    /\ ~ValidConfiguration =>
          /\ Len(users) = 1
          /\ pricing_data = <<>>
          /\ pc # "done"
    /\ (ValidConfiguration /\ Len(tier_limits) = Len(tier_prices) /\ pc = "done") =>
          /\ df.status = "ok"
          /\ Len(df.rows) = months + 1

(* C2: users[0] = initialUsers, and every later month is the floor of the  *)
(* month before times (1 + growthRatePercent/100), the product taken       *)
(* exactly: floor(u * (100 + rate) / 100) for a rate in whole percent.     *)
C2_GrowthRecurrence ==
    /\ users[1] = initial_users
    /\ \A m \in 2..Len(users) :
          users[m] = (users[m - 1] * (100 + growth_rate)) \div 100

(* C3: the result has horizonMonths + 1 records, in ascending order, the   *)
(* record at position i carrying month index i.                            *)
C3_OneRecordPerMonth ==
    /\ \A r \in 1..Len(pricing_data) : RowMonth(pricing_data[r]) = r - 1
    /\ Len(pricing_data) <= months + 1
    /\ pc = "done" =>
          /\ df.status = "ok"
          /\ Len(Records) = months + 1
          /\ \A r \in 1..Len(Records) :
                /\ RowMonth(Records[r]) = r - 1
                /\ RowUsers(Records[r]) = users[r]

C3_Witness ==
    /\ pc = "done"
    /\ months = 3
    /\ Len(df.rows) = 4
    /\ RowMonth(df.rows[4]) = 3

(* C4: in Tiered mode the tier costs of every record are those of the      *)
(* graduated rule: tier k charges min(remaining, capacity_k) units at      *)
(* unitPrice_k, the final tier charges all users still remaining at        *)
(* finalUnitPrice.                                                         *)
C4_GraduatedTiers ==
    use_tiers =>
        \A r \in 1..Len(Records) :
            RowTierCosts(Records[r])
              = GraduatedCosts(RowUsers(Records[r]), tier_limits, tier_prices,
                               final_tier_price)

\* 10000 users, tiers [(5000, 1.0), (5000, 0.5)], final 0.8: 5000, 2500, 0, total 7500
C4_Witness ==
    /\ pc = "done"
    /\ use_tiers
    /\ initial_users = 10000 /\ growth_rate = 0 /\ months = 1
    /\ tier_limits = <<5000, 5000>> /\ tier_prices = <<10, 5>>
    /\ final_tier_price = 8
    /\ RowTierCosts(df.rows[1]) = <<FromInt(5000), FromInt(2500), FloatZero>>
    /\ RowTotal(df.rows[1]) = FromInt(7500)

(* C5: in every record, Flat or Tiered, the sum of the tier cost entries   *)
(* (the float sum sum(tierCosts) computes) equals the total cost.          *)
C5_TierCostsSumToTotal ==
    \A r \in 1..Len(Records) :
        FloatSum(RowTierCosts(Records[r])) = RowTotal(Records[r])

\* three nonzero entries, the last at a price (0.8) that is no binary fraction
C5_Witness ==
    /\ pc = "done"
    /\ use_tiers
    /\ final_tier_price = 8
    /\ \E r \in 1..Len(df.rows) :
          /\ Len(RowTierCosts(df.rows[r])) = 3
          /\ \A t \in 1..3 : RowTierCosts(df.rows[r])[t] # FloatZero
          /\ RowTierCosts(df.rows[r])[1] # RowTierCosts(df.rows[r])[2]

(* C6: a Tiered record has (number of configured tiers + 1) tier cost      *)
(* entries, the last an explicit 0 when no users remain, a Flat record 1;  *)
(* so every row of the table has one value per column label: Month,        *)
(* Projected Users, Tier 1..N Pricing ($), Final Tier Pricing ($), Total   *)
(* Estimated Pricing ($).                                                  *)
C6_OneEntryPerColumn ==
    /\ \A r \in 1..Len(pricing_data) :
          Len(RowTierCosts(pricing_data[r]))
            = IF use_tiers THEN Len(tier_limits) + 1 ELSE 1
    /\ (pc = "row" /\ use_tiers /\ remaining_users = 0) =>
          /\ Len(tier_costs) = Len(tier_limits) + 1
          /\ tier_costs[Len(tier_costs)] = FloatZero
    /\ pc = "done" =>
          /\ df.status = "ok"
          /\ df.columns = Labels(IF use_tiers THEN Len(tier_limits) ELSE 0)
          /\ \A r \in 1..Len(df.rows) : Len(df.rows[r]) = Len(df.columns)

C6_Witness ==
    /\ pc = "done"
    /\ use_tiers
    /\ Len(tier_limits) = 2
    /\ Len(df.columns) = 6
    /\ \E r \in 1..Len(df.rows) :
          /\ Len(df.rows[r]) = 6
          /\ df.rows[r][5] = FloatZero

(* C7: with growthRatePercent >= 0 the projected users of a month are at   *)
(* least those of the month before.                                        *)
C7_UsersNonDecreasing ==
    /\ \A m \in 2..Len(users) : users[m] >= users[m - 1]
    /\ \A r \in 2..Len(Records) : RowUsers(Records[r]) >= RowUsers(Records[r - 1])

\* 25 users at 16%: the float product 25 * 1.16 truncates to 28
C7_Witness ==
    /\ pc = "done"
    /\ initial_users = 25 /\ growth_rate = 16 /\ months = 3
    /\ RowUsers(df.rows[2]) = 28
    /\ RowUsers(df.rows[4]) > RowUsers(df.rows[3])

(* C8: in Tiered mode a record whose projectedUsers is at most the sum of  *)
(* the tier capacities has a final tier cost of exactly 0.                 *)
C8_NoOverflowNoCost ==
    use_tiers =>
        \A r \in 1..Len(Records) :
            RowUsers(Records[r]) <= SumSeq(tier_limits) =>
                Records[r][Len(Records[r]) - 1] = FloatZero

\* the capacities used up exactly: 10000 users over tiers of 5000 and 5000
C8_Witness ==
    /\ pc = "done"
    /\ use_tiers
    /\ final_tier_price = 8
    /\ \E r \in 1..Len(df.rows) :
          /\ RowUsers(df.rows[r]) = SumSeq(tier_limits)
          /\ RowTotal(df.rows[r]) # FloatZero
          /\ df.rows[r][Len(df.rows[r]) - 1] = FloatZero

(* C9: in Flat mode every record's total cost is projectedUsers *          *)
(* pricePerUser and its single tier cost entry is that total, whatever     *)
(* tier limits and prices were passed.                                     *)
C9_FlatTotal ==
    ~use_tiers =>
        \A r \in 1..Len(Records) :
            LET cost == FloatMulInt(RowUsers(Records[r]), PriceFloat(final_tier_price))
            IN  Records[r] = <<r - 1, users[r], cost, cost>>

\* 10000 users, 5%, horizon 2, price 1.0: totals 10000, 10500, 11025
C9_Witness ==
    /\ pc = "done"
    /\ ~use_tiers
    /\ initial_users = 10000 /\ growth_rate = 5 /\ months = 2
    /\ final_tier_price = 10
    /\ tier_limits = <<5000, 20000>>
    /\ [r \in 1..3 |-> RowTotal(df.rows[r])]
         = <<FromInt(10000), FromInt(10500), FromInt(11025)>>

(* C10: in Tiered mode remaining_users stays within 0..userCount through   *)
(* the tier loop, and once the final tier is done the units charged over   *)
(* all tiers add up to the month's projectedUsers.                         *)
C10_UserConservation ==
    (use_tiers /\ pc \in {"tier", "row"}) =>
        /\ remaining_users \in 0..users[i + 1]
        /\ \A t \in 1..Len(charged) : charged[t] >= 0
        /\ pc = "tier" => SumSeq(charged) + remaining_users = users[i + 1]
        /\ pc = "row" => SumSeq(charged) = users[i + 1]

\* 10500 users over tiers of 5000 and 5000: 5000, 5000 and 500 in the final tier
C10_Witness ==
    /\ pc = "row"
    /\ use_tiers
    /\ charged = <<5000, 5000, 500>>
    /\ users[i + 1] = 10500

====
